---- MODULE Spec2Model ----
(***************************************************************************)
(* Model of cloud/amazon/cloudformation.py: one run of main() against a    *)
(* remote CloudFormation service.  The program is a single sequential      *)
(* flow; `pc` is its position.  Every remote call is one step, so that the *)
(* remote stack may move between two calls.                                *)
(***************************************************************************)
EXTENDS Integers, Sequences, FiniteSets, TLC

(* ------------------------------------------------------------------ *)
(* Bounds of the model                                                 *)
(* ------------------------------------------------------------------ *)

\* Iterations of the polling loop of stack_operation explored per call.
MaxPolls == 3

\* Remote errors (throttling, authorization, transport) injected per run.
MaxFaults == 4

(* ------------------------------------------------------------------ *)
(* Program constants                                                   *)
(* ------------------------------------------------------------------ *)

IGNORE_CODE == "Throttling"

MAX_RETRIES == 3

\* time.sleep(5 * (2**retries)): the base of the backoff.
BackoffBase == 5

stack_name == "s1"

None == "None"

EmptyDict == [x \in {} |-> TRUE]

(* ------------------------------------------------------------------ *)
(* Errors raised by the remote calls.  A message is the sequence of    *)
(* its words; Python's `needle in message` is a contiguous match.      *)
(* ------------------------------------------------------------------ *)

BotoServerError(code, message) == [class |-> "BotoServerError", code |-> code, error_message |-> message]

NotFoundError == BotoServerError("ValidationError", <<"Stack:s1", "does", "not", "exist">>)

ThrottlingError == BotoServerError("Throttling", <<"Rate", "exceeded">>)

AccessDeniedError == BotoServerError("AccessDenied", <<"User", "is", "not", "authorized">>)

AlreadyExistsError == BotoServerError("AlreadyExistsException", <<"Stack", "[s1]", "already", "exists">>)

NoUpdatesError == BotoServerError("ValidationError", <<"No", "updates", "are", "to", "be", "performed.">>)

\* An exception that is not a BotoServerError (socket error, timeout).
TransportError == [class |-> "socket.error", code |-> "none", error_message |-> <<"Connection", "reset">>]

\* The errors that do not depend on the state of the remote stack.
Faults == {ThrottlingError, AccessDeniedError, TransportError}

\* needle in message
Contains(needle, message) == \E i \in 0..(Len(message) - Len(needle)) : SubSeq(message, i + 1, i + Len(needle)) = needle

boto_exception(err) == err.error_message

(* ------------------------------------------------------------------ *)
(* Documents: the values json.loads returns.  A node carries its kind  *)
(* and one field per kind, so that any two nodes can be compared.      *)
(* ------------------------------------------------------------------ *)

EmptyMap == [x \in {} |-> 0]

Scalar(n) == [kind |-> "scalar", s |-> n, l |-> <<>>, m |-> EmptyMap]

List(q) == [kind |-> "list", s |-> 0, l |-> q, m |-> EmptyMap]

Mapping(f) == [kind |-> "dict", s |-> 0, l |-> <<>>, m |-> f]

\* The template files of the model: T1 and T1w are the same document with
\* different white space, T2 changes a leaf, T3 changes a nested leaf and
\* adds a key.
TemplateTexts == {"T1", "T1w", "T2", "T3"}

DocT1 == Mapping([A |-> Scalar(1), R |-> Mapping([P |-> Scalar(1)])])

DocT2 == Mapping([A |-> Scalar(2), R |-> Mapping([P |-> Scalar(1)])])

DocT3 == Mapping([A |-> Scalar(1), R |-> Mapping([P |-> Scalar(2)]), L |-> List(<<1, 2>>)])

\* json.loads of a template text; None is not a string and raises TypeError.
json_loads_raises(text) == text \notin TemplateTexts

json_loads(text) == CASE text = "T1" -> DocT1 [] text = "T1w" -> DocT1 [] text = "T2" -> DocT2 [] text = "T3" -> DocT3

(* ------------------------------------------------------------------ *)
(* CloudFormationStack.diff_json: the change report of two documents.  *)
(* A report maps a key to an entry.                                    *)
(* ------------------------------------------------------------------ *)

\* the two labels taken one for the other
Added_as_removed == [e |-> "Removed"]

Added == [e |-> "Added"]

Removed == [e |-> "Removed"]

\* "Changed from %s to %s" % (current[key], target[key])
Changed(from, to) == [e |-> "Changed", from |-> from, to |-> to]

Nested(child_diff) == [e |-> "Nested", d |-> child_diff]

Sentinel == [e |-> "child diff but no changes found"]

\* keys compared without looking into two mappings
UnequalKeys_shallow(current, target) == {key \in (DOMAIN current.m) \cap (DOMAIN target.m) : current.m[key] # target.m[key] /\ ~(current.m[key].kind = "dict" /\ target.m[key].kind = "dict")}

\* The keys present in both documents whose values differ.
UnequalKeys(current, target) == {key \in (DOMAIN current.m) \cap (DOMAIN target.m) : current.m[key] # target.m[key]}

\* diff_json raises AttributeError when it calls .keys() on a node that is
\* no dict: the recursion tests the type of current[key] only.
RECURSIVE diff_json_raises(_, _)
diff_json_raises(current, target) == \/ current.kind # "dict"
                                     \/ target.kind # "dict"
                                     \/ \E key \in UnequalKeys(current, target) : current.m[key].kind = "dict" /\ diff_json_raises(current.m[key], target.m[key])

RECURSIVE diff_json(_, _)
diff_json(current, target) == LET current_keys == DOMAIN current.m
                                  target_keys == DOMAIN target.m
                                  reported == (current_keys \ target_keys) \cup (target_keys \ current_keys) \cup UnequalKeys(current, target)
                                  entry(key) == IF key \notin current_keys THEN Added
                                                ELSE IF key \notin target_keys THEN Removed
                                                ELSE IF current.m[key].kind = "dict"
                                                     THEN LET child_diff == diff_json(current.m[key], target.m[key])
                                                          IN IF Cardinality(DOMAIN child_diff) > 0 THEN Nested(child_diff) ELSE Sentinel
                                                     ELSE Changed(current.m[key], target.m[key])
                              IN [key \in reported |-> entry(key)]

(* ------------------------------------------------------------------ *)
(* Template parameters.  A target value is a string or an integer (the *)
(* YAML of the playbook decides); a current value is a string.         *)
(* ------------------------------------------------------------------ *)

StrVal(s) == [t |-> "str", s |-> s, i |-> 0]

IntVal(i) == [t |-> "int", s |-> "", i |-> i]

\* str(new_value)
str(v) == IF v.t = "str" THEN v.s ELSE CASE v.i = 0 -> "0" [] v.i = 1 -> "1" [] v.i = 2 -> "2" [] v.i = 3 -> "3"

\* the truth value Python gives new_value; a missing key gives None
truthy(v) == IF v.t = "str" THEN v.s # "" ELSE v.i # 0

Parameter(key, value) == [key |-> key, value |-> value]

\* the keys of current_parameters whose target value is set and differs
DeltaKeys(target_parameters, current_parameters) == {current_parameters[n].key : n \in {n \in DOMAIN current_parameters : LET old == current_parameters[n] IN old.key \in DOMAIN target_parameters /\ truthy(target_parameters[old.key]) /\ str(target_parameters[old.key]) # old.value}}

\* the value of the last entry of current_parameters with this key
OldValue(current_parameters, key) == LET last == CHOOSE n \in DOMAIN current_parameters : current_parameters[n].key = key /\ \A k \in DOMAIN current_parameters : current_parameters[k].key = key => k <= n IN current_parameters[last].value

params_delta(target_parameters, current_parameters) == [key \in DeltaKeys(target_parameters, current_parameters) |-> [from |-> OldValue(current_parameters, key), to |-> target_parameters[key]]]

\* _diff_templates raises when json.loads or diff_json does
diff_templates_raises(current_template, target_template) == \/ json_loads_raises(current_template)
                                                            \/ json_loads_raises(target_template)
                                                            \/ diff_json_raises(json_loads(current_template), json_loads(target_template))

diff_templates(current_template, target_template) == diff_json(json_loads(current_template), json_loads(target_template))

\* planned_changes raises when the stack is present, the two template
\* texts differ and the diff of the templates raises
planned_changes_raises(present, target_template, current_template) == present /\ target_template # current_template /\ diff_templates_raises(current_template, target_template)

planned_changes(present, target_template, current_template, target_parameters, current_parameters) == IF ~present THEN <<>>
    ELSE (IF target_template # current_template THEN << [Template |-> diff_templates(current_template, target_template)] >> ELSE <<>>)
         \o (IF Cardinality(DeltaKeys(target_parameters, current_parameters)) > 0 THEN << params_delta(target_parameters, current_parameters) >> ELSE <<>>)

\* CloudFormationStack.check: the arguments of its exit_json.  Each branch
\* of the if/elif chain is one arm.

check(target_state, present, pending_updates, current_outputs) == CASE target_state = "present" /\ ~present -> [changed |-> TRUE, output |-> "Stack would be created.", stack_outputs |-> current_outputs]
    [] target_state = "present" /\ present /\ Len(pending_updates) > 0 -> [changed |-> TRUE, output |-> "Stack would be updated, changes: " \o ToString(pending_updates), stack_outputs |-> current_outputs]
    [] target_state = "present" /\ present /\ Len(pending_updates) = 0 -> [changed |-> FALSE, output |-> "Stack is up to date.", stack_outputs |-> current_outputs]
    [] target_state = "absent" /\ present -> [changed |-> TRUE, output |-> "Stack will be deleted.", stack_outputs |-> current_outputs]
    [] target_state = "absent" /\ ~present -> [changed |-> FALSE, output |-> "Stack is missing.", stack_outputs |-> current_outputs]
    [] target_state = "described" -> [changed |-> FALSE, output |-> "Stack is only being described", stack_outputs |-> current_outputs]

(* ------------------------------------------------------------------ *)
(* The remote service                                                  *)
(* ------------------------------------------------------------------ *)

Return(value) == [kind |-> "return", value |-> value]

\* the local `stack` of stack_operation before its first assignment
Unbound == [stack_status |-> "unbound"]

\* no function is called on its own
NoCall == [fn |-> "none"]

\* no call made yet
NoAnswer == [kind |-> "none", value |-> EmptyDict]

Raise(err) == [kind |-> "raise", value |-> err]

NoStack == [status |-> "NONE", events |-> <<>>, template |-> None, parameters |-> <<>>]

ExistingStack(status) == [status |-> status, events |-> <<status>>, template |-> "T1", parameters |-> <<Parameter("A", "1"), Parameter("B", "2")>>]

\* The statuses the service leaves by itself, and where it goes.
NextStatus(status) == CASE status = "CREATE_IN_PROGRESS" -> {"CREATE_COMPLETE", "CREATE_FAILED", "ROLLBACK_IN_PROGRESS"}
    [] status = "ROLLBACK_IN_PROGRESS" -> {"ROLLBACK_COMPLETE", "ROLLBACK_FAILED"}
    [] status = "UPDATE_IN_PROGRESS" -> {"UPDATE_COMPLETE", "UPDATE_ROLLBACK_IN_PROGRESS"}
    [] status = "UPDATE_ROLLBACK_IN_PROGRESS" -> {"UPDATE_ROLLBACK_COMPLETE", "UPDATE_ROLLBACK_FAILED"}
    [] status = "DELETE_IN_PROGRESS" -> {"NONE", "DELETE_FAILED"}
    [] OTHER -> {}

Moved(r, status) == [r EXCEPT !.status = status, !.events = IF status = "NONE" THEN @ ELSE Append(@, status)]

\* stack.outputs of a described stack
Outputs(status) == IF status \in {"CREATE_COMPLETE", "UPDATE_COMPLETE", "UPDATE_ROLLBACK_COMPLETE"} THEN [URL |-> "http://s1"] ELSE EmptyDict

\* The Stack object describe_stacks returns.
Stack(r) == [stack_status |-> r.status, outputs |-> Outputs(r.status), template_body |-> r.template, parameters |-> r.parameters]

\* cfn.describe_stacks(stack_name), were the service to answer
describe_stacks(r) == IF r.status = "NONE" THEN Raise(NotFoundError) ELSE Return(Stack(r))

\* cfn.create_stack(stack_name, ...), were the service to answer
Accepted == [stack_id |-> "arn:s1"]

create_stack_answer(r) == IF r.status = "NONE" THEN Return(Accepted) ELSE Raise(AlreadyExistsError)

InvalidStateError == BotoServerError("ValidationError", <<"Stack:s1", "is", "in", "a", "state", "that", "can", "not", "be", "updated">>)

Updatable == {"CREATE_COMPLETE", "UPDATE_COMPLETE", "UPDATE_ROLLBACK_COMPLETE"}

\* cfn.update_stack(stack_name, ...), were the service to answer: it accepts
\* the update of a stable stack or finds nothing to update.
update_stack_answers(r) == IF r.status = "NONE" THEN {Raise(NotFoundError)}
                           ELSE IF r.status \in Updatable THEN {Return(Accepted), Raise(NoUpdatesError)}
                           ELSE {Raise(InvalidStateError)}

(* ------------------------------------------------------------------ *)
(* State                                                               *)
(* ------------------------------------------------------------------ *)

VARIABLES
    check_mode,           \* module.check_mode
    state,                \* module.params['state']
    template_body,        \* the text of module.params['template'], or None
    template_url,         \* module.params['template_url']
    template_parameters,  \* module.params['template_parameters']
    remote,               \* the stack as the service holds it
    faults,               \* remote errors injected so far
    cfn_stack,            \* the CloudFormationStack object of main
    update,               \* main: update
    operation,            \* main: operation
    result,               \* main: result
    existed,              \* stack_operation: existed (only membership is read)
    stack,                \* stack_operation: stack, the last stack described
    polls,                \* stack_operation: iterations of its loop so far
    retries,              \* invoke_with_throttling_retries: retries
    attempts,             \* calls of function_ref made by the current invoke
    delays,               \* the seconds slept by the current invoke, in order
    answers,              \* the answers function_ref gave the current invoke
    wret,                 \* what the last invoke returned or raised
    caller,               \* where the current invoke returns to
    loaded,               \* the answer to the describe of _load_current_stack
    pc,                   \* position in main
    exit,                 \* how the module ended: exit_json, fail_json, exception
    trace,                \* the mutating calls issued and the polling loops entered
    applied,              \* a function called on its own, with its arguments
    returned              \* what that function returned or raised

vars == <<check_mode, state, template_body, template_url, template_parameters, remote, faults, cfn_stack, update, operation, result, existed, stack, polls, retries, attempts, delays, answers, wret, caller, loaded, pc, exit, trace, applied, returned>>

inputs == <<check_mode, state, template_body, template_url, template_parameters>>

\* the function under call outside main, and its result
unit_vars == <<applied, returned>>

invoke_vars == <<retries, attempts, delays, answers, wret, caller>>

poll_vars == <<existed, stack, polls>>

main_vars == <<update, operation, result>>

\* The playbooks of the model.
ParameterSets == {EmptyMap, [A |-> StrVal("1"), B |-> StrVal("2")], [A |-> StrVal("1"), B |-> StrVal("3")], [B |-> IntVal(2), C |-> StrVal("9")]}

InitialRemotes == {NoStack, ExistingStack("CREATE_COMPLETE"), ExistingStack("ROLLBACK_COMPLETE")}

Running == [kind |-> "running", at |-> None, args |-> EmptyDict]

Init == /\ check_mode \in BOOLEAN
        /\ state \in {"present", "absent", "described"}
        /\ template_body \in {None, "T1", "T1w", "T2"}
        /\ template_url \in {None, "http://bucket/t.json"}
        /\ template_body = None \/ template_url = None
        /\ template_parameters \in ParameterSets
        \* only check mode reads the template and the parameters: the other
        \* runs hand them to the service unread, and take one playbook
        /\ check_mode \/ (template_parameters = EmptyMap /\ template_body \in {None, "T1"})
        /\ remote \in InitialRemotes
        /\ faults = 0
        /\ cfn_stack = [present |-> FALSE, current_template |-> None, current_parameters |-> <<>>, current_outputs |-> EmptyDict]
        /\ update = FALSE
        /\ operation = None
        /\ result = EmptyDict
        /\ existed = {}
        /\ stack = Unbound
        /\ polls = 0
        /\ retries = 0
        /\ attempts = 0
        /\ delays = <<>>
        /\ answers = <<>>
        /\ wret = NoAnswer
        /\ caller = None
        /\ loaded = NoAnswer
        /\ pc = "start"
        /\ exit = Running
        /\ trace = <<>>
        /\ applied = NoCall
        /\ returned = NoAnswer

(* ------------------------------------------------------------------ *)
(* Helpers of the actions                                              *)
(* ------------------------------------------------------------------ *)

\* What a remote call may answer: what the service answers, or, while the
\* fault budget lasts, an error that does not depend on the stack.
WithFaults(natural) == natural \cup (IF faults < MaxFaults THEN {Raise(f) : f \in Faults} ELSE {})

IsFault(resp) == resp.kind = "raise" /\ resp.value \in Faults

Cost(resp) == IF IsFault(resp) THEN 1 ELSE 0

\* module.exit_json(**args), module.fail_json(msg=...), an uncaught exception
exit_json(args) == exit' = [kind |-> "exit_json", at |-> pc, args |-> args] /\ pc' = "done"

fail_json(msg) == exit' = [kind |-> "fail_json", at |-> pc, args |-> [msg |-> msg]] /\ pc' = "done"

uncaught(err) == exit' = [kind |-> "exception", at |-> pc, args |-> err] /\ pc' = "done"

Issued(call, resp) == trace' = Append(trace, [call |-> call, outcome |-> resp])

\* the entry of trace that marks the start of stack_operation(cfn, stack_name, op)
Entered(op) == [call |-> "stack_operation", outcome |-> [kind |-> "enter", value |-> op]]

\* the call of invoke_with_throttling_retries(cfn.describe_stacks, stack_name)
\* that returns to `continuation`
begin_invoke(continuation) == /\ pc' = "invoke"
                              /\ caller' = continuation
                              /\ retries' = 0
                              /\ attempts' = 0
                              /\ delays' = <<>>
                              /\ answers' = <<>>
                              /\ wret' = NoAnswer

(* ------------------------------------------------------------------ *)
(* invoke_with_throttling_retries: one iteration of its `while True`   *)
(* ------------------------------------------------------------------ *)

\* mutant: gives up one retry early
GiveUp_one_early(e, n) == e.code # IGNORE_CODE \/ n = MAX_RETRIES - 1

\* mutant: retries whatever the code of the error
GiveUp_any_code(e, n) == n = MAX_RETRIES

\* if e.code != IGNORE_CODE or retries==MAX_RETRIES: raise e
GiveUp(e, n) == e.code # IGNORE_CODE \/ n = MAX_RETRIES

\* mutant: the delay grows linearly
Backoff_linear(n) == BackoffBase * (n + 1)

\* time.sleep(5 * (2**retries))
Backoff(n) == BackoffBase * 2^n

\* except boto.exception.BotoServerError, e
Caught(e) == e.class = "BotoServerError"

invoke_with_throttling_retries ==
    /\ pc = "invoke"
    /\ \E resp \in WithFaults({describe_stacks(remote)}) :
        /\ faults' = faults + Cost(resp)
        /\ attempts' = attempts + 1
        /\ answers' = Append(answers, resp)
        /\ IF resp.kind = "raise" /\ Caught(resp.value) /\ ~GiveUp(resp.value, retries)
           THEN /\ delays' = Append(delays, Backoff(retries))
                /\ retries' = retries + 1
                /\ UNCHANGED <<wret, pc>>
           ELSE /\ wret' = resp
                /\ pc' = caller
                /\ UNCHANGED <<delays, retries>>
    /\ UNCHANGED <<inputs, unit_vars, loaded, remote, cfn_stack, main_vars, poll_vars, caller, exit, trace>>

(* ------------------------------------------------------------------ *)
(* main                                                                *)
(* ------------------------------------------------------------------ *)

\* CloudFormationStack._load_current_stack after a describe that raised a
\* BotoServerError: the handler returns, whatever the error
load_handler_returns(e) == e.class = "BotoServerError"

\* main up to line 404: the argument checks and the CloudFormationStack
\* constructor, which loads the current stack with a describe of its own
load_current_stack ==
    /\ pc = "start"
    /\ IF template_body = None /\ template_url = None
       THEN /\ fail_json("Either template or template_url expected")
            /\ UNCHANGED <<cfn_stack, faults, loaded>>
       ELSE \E resp \in WithFaults({describe_stacks(remote)}) :
            /\ loaded' = resp
            /\ IF resp.kind = "return"
               THEN \E got \in {Return(resp.value.template_body)} \cup (IF faults < MaxFaults THEN {Raise(AccessDeniedError)} ELSE {}) :
                    /\ faults' = faults + Cost(got)
                    /\ IF got.kind = "return"
                       THEN /\ cfn_stack' = [present |-> TRUE, current_template |-> got.value, current_parameters |-> resp.value.parameters, current_outputs |-> resp.value.outputs]
                            /\ pc' = "mode"
                            /\ UNCHANGED exit
                       ELSE /\ cfn_stack' = [cfn_stack EXCEPT !.present = TRUE, !.current_outputs = resp.value.outputs]
                            /\ uncaught(got.value)
               ELSE /\ faults' = faults + Cost(resp)
                    /\ UNCHANGED cfn_stack
                    /\ IF load_handler_returns(resp.value) THEN pc' = "mode" /\ UNCHANGED exit ELSE uncaught(resp.value)
    /\ UNCHANGED <<inputs, unit_vars, remote, main_vars, poll_vars, invoke_vars, trace>>

\* main lines 407-409: cfn_stack.check() in check mode
dry_run ==
    /\ pc = "mode"
    /\ check_mode
    /\ IF planned_changes_raises(cfn_stack.present, template_body, cfn_stack.current_template)
       THEN uncaught([class |-> "TypeError", code |-> "none", error_message |-> <<"expected", "string", "or", "buffer">>])
       ELSE exit_json(check(state, cfn_stack.present, planned_changes(cfn_stack.present, template_body, cfn_stack.current_template, template_parameters, cfn_stack.current_parameters), cfn_stack.current_outputs))
    /\ UNCHANGED <<inputs, unit_vars, loaded, remote, faults, cfn_stack, main_vars, poll_vars, invoke_vars, trace>>

\* main lines 411-415: state 'described'
described ==
    /\ pc = "mode"
    /\ ~check_mode
    /\ state = "described"
    /\ IF cfn_stack.present THEN exit_json([changed |-> FALSE, stack_outputs |-> cfn_stack.current_outputs]) ELSE fail_json("Stack doesn't exist")
    /\ UNCHANGED <<inputs, unit_vars, loaded, remote, faults, cfn_stack, main_vars, poll_vars, invoke_vars, trace>>

\* mutant: the loop starts with the stack taken as seen
begin_stack_operation_seen(op) == /\ existed' = {"yes"}
                                  /\ stack' = Unbound
                                  /\ polls' = 0
                                  /\ begin_invoke("poll")

\* stack_operation(cfn, stack_name, op) up to its first describe
begin_stack_operation(op) == /\ existed' = {}
                             /\ stack' = Unbound
                             /\ polls' = 0
                             /\ begin_invoke("poll")

\* mutant: only the exception name is looked for
create_means_update_name_only(error_msg) == Contains(<<"AlreadyExistsException">>, error_msg)

\* 'AlreadyExistsException' in error_msg or 'already exists' in error_msg
create_means_update(error_msg) == Contains(<<"AlreadyExistsException">>, error_msg) \/ Contains(<<"already", "exists">>, error_msg)

\* main lines 419-436: state 'present', cfn.create_stack
create_stack ==
    /\ pc = "mode"
    /\ ~check_mode
    /\ state = "present"
    /\ \E resp \in WithFaults({create_stack_answer(remote)}) :
        /\ faults' = faults + Cost(resp)
        /\ IF resp.kind = "return"
           THEN /\ remote' = [status |-> "CREATE_IN_PROGRESS", events |-> <<"CREATE_IN_PROGRESS">>, template |-> template_body, parameters |-> <<>>]
                /\ operation' = "CREATE"
                /\ trace' = trace \o <<[call |-> "create_stack", outcome |-> resp], Entered("CREATE")>>
                /\ begin_stack_operation("CREATE")
                /\ UNCHANGED <<update, exit>>
           ELSE /\ Issued("create_stack", resp)
                /\ UNCHANGED <<remote, operation, poll_vars, invoke_vars>>
                /\ IF create_means_update(boto_exception(resp.value))
                   THEN update' = TRUE /\ pc' = "update" /\ UNCHANGED exit
                   ELSE fail_json(boto_exception(resp.value)) /\ UNCHANGED update
    /\ UNCHANGED <<inputs, unit_vars, loaded, cfn_stack, result>>

\* mutant: the text looked for lacks the full stop
nothing_to_update_no_stop(error_msg) == Contains(<<"No", "updates", "are", "to", "be", "performed">>, error_msg)

\* 'No updates are to be performed.' in error_msg
nothing_to_update(error_msg) == Contains(<<"No", "updates", "are", "to", "be", "performed.">>, error_msg)

\* main lines 441-464: cfn.update_stack; without an operation to poll, main
\* goes on to describe the stack for its outputs
update_stack ==
    /\ pc = "update"
    /\ update
    /\ \E resp \in WithFaults(update_stack_answers(remote)) :
        /\ faults' = faults + Cost(resp)
        /\ IF resp.kind = "return"
           THEN /\ remote' = Moved(remote, "UPDATE_IN_PROGRESS")
                /\ operation' = "UPDATE"
                /\ trace' = trace \o <<[call |-> "update_stack", outcome |-> resp], Entered("UPDATE")>>
                /\ begin_stack_operation("UPDATE")
                /\ UNCHANGED <<result, exit>>
           ELSE /\ Issued("update_stack", resp)
                /\ UNCHANGED <<remote, operation, poll_vars>>
                /\ IF nothing_to_update(boto_exception(resp.value))
                   THEN /\ result' = [changed |-> FALSE, output |-> "Stack is already up-to-date."]
                        /\ begin_invoke("outputs")
                        /\ UNCHANGED exit
                   ELSE /\ fail_json(boto_exception(resp.value))
                        /\ UNCHANGED <<result, invoke_vars>>
    /\ UNCHANGED <<inputs, unit_vars, loaded, cfn_stack, update>>

(* ------------------------------------------------------------------ *)
(* stack_operation: one iteration of its loop, after the describe      *)
(* ------------------------------------------------------------------ *)

\* the three tests of stack.stack_status that end the loop
operation_complete(op, status) == \/ status = op \o "_COMPLETE"
                                  \/ status = "ROLLBACK_COMPLETE"
                                  \/ status = op \o "_ROLLBACK_COMPLETE"
                                  \/ status = op \o "_FAILED"

\* mutant: a rollback is not reported as a failure
status_result_rollback_ok(op, status, events) == IF status = op \o "_COMPLETE"
    THEN [changed |-> TRUE, events |-> events, output |-> "Stack " \o op \o " complete"]
    ELSE IF status = "ROLLBACK_COMPLETE" \/ status = op \o "_ROLLBACK_COMPLETE"
    THEN [changed |-> TRUE, events |-> events, output |-> "Problem with " \o op \o ". Rollback complete"]
    ELSE [changed |-> TRUE, failed |-> TRUE, events |-> events, output |-> "Stack " \o op \o " failed"]

\* the result of the test that matches, in the order of the code
status_result(op, status, events) == IF status = op \o "_COMPLETE"
    THEN [changed |-> TRUE, events |-> events, output |-> "Stack " \o op \o " complete"]
    ELSE IF status = "ROLLBACK_COMPLETE" \/ status = op \o "_ROLLBACK_COMPLETE"
    THEN [changed |-> TRUE, failed |-> TRUE, events |-> events, output |-> "Problem with " \o op \o ". Rollback complete"]
    ELSE [changed |-> TRUE, failed |-> TRUE, events |-> events, output |-> "Stack " \o op \o " failed"]

\* mutant: the handler does not look at `existed`
describe_failed_result_always_deleted(seen, events) == [changed |-> TRUE, output |-> "Stack Deleted", events |-> events]

\* the bare `except:` around the describe
describe_failed_result(seen, events) == IF "yes" \in seen
    THEN [changed |-> TRUE, output |-> "Stack Deleted", events |-> events]
    ELSE [changed |-> TRUE, output |-> "Stack Not Found"]

\* main after stack_operation returned: state 'present' goes on to describe
\* the stack for its outputs (line 464), state 'absent' exits (line 487)
after_stack_operation(res) == /\ result' = res
                              /\ IF state = "present"
                                 THEN begin_invoke("outputs") /\ UNCHANGED exit
                                 ELSE exit_json(res) /\ UNCHANGED invoke_vars

stack_operation ==
    /\ pc = "poll"
    /\ IF wret.kind = "raise"
       THEN /\ after_stack_operation(describe_failed_result(existed, remote.events))
            /\ UNCHANGED poll_vars
       ELSE /\ existed' = existed \cup {"yes"}
            /\ stack' = wret.value
            /\ IF operation_complete(operation, wret.value.stack_status)
               THEN /\ after_stack_operation(status_result(operation, wret.value.stack_status, remote.events))
                    /\ UNCHANGED polls
               ELSE /\ polls < MaxPolls
                    /\ polls' = polls + 1
                    /\ begin_invoke("poll")
                    /\ UNCHANGED <<result, exit>>
    /\ UNCHANGED <<inputs, unit_vars, loaded, remote, faults, cfn_stack, update, operation, trace>>

\* result['stack_outputs'] = stack_outputs
with_outputs(res, outs) == [k \in (DOMAIN res) \cup {"stack_outputs"} |-> IF k = "stack_outputs" THEN outs ELSE res[k]]

\* main lines 463-467 and 487, after the describe of line 464
stack_outputs ==
    /\ pc = "outputs"
    /\ IF wret.kind = "return"
       THEN /\ result' = with_outputs(result, wret.value.outputs)
            /\ exit_json(with_outputs(result, wret.value.outputs))
       ELSE /\ uncaught(wret.value)
            /\ UNCHANGED result
    /\ UNCHANGED <<inputs, unit_vars, loaded, remote, faults, cfn_stack, update, operation, poll_vars, invoke_vars, trace>>

\* mutant: the branch of 'absent' is entered whatever the state is
absent_describe_any_state ==
    /\ pc = "mode"
    /\ ~check_mode
    /\ begin_invoke("absent")
    /\ UNCHANGED <<inputs, unit_vars, loaded, remote, faults, cfn_stack, main_vars, poll_vars, exit, trace>>

\* main lines 473-475: state 'absent' describes the stack first
absent_describe ==
    /\ pc = "mode"
    /\ ~check_mode
    /\ state = "absent"
    /\ begin_invoke("absent")
    /\ UNCHANGED <<inputs, unit_vars, loaded, remote, faults, cfn_stack, main_vars, poll_vars, exit, trace>>

\* 'Stack:%s does not exist' % stack_name in error_msg
stack_missing(error_msg) == Contains(<<"Stack:" \o stack_name, "does", "not", "exist">>, error_msg)

\* main lines 476-482, after the describe of line 475
absent ==
    /\ pc = "absent"
    /\ IF wret.kind = "return"
       THEN /\ operation' = "DELETE"
            /\ pc' = "delete"
            /\ UNCHANGED <<result, exit>>
       ELSE /\ UNCHANGED operation
            /\ IF stack_missing(boto_exception(wret.value))
               THEN /\ result' = [changed |-> FALSE, output |-> "Stack not found."]
                    /\ exit_json([changed |-> FALSE, output |-> "Stack not found."])
               ELSE /\ fail_json(boto_exception(wret.value))
                    /\ UNCHANGED result
    /\ UNCHANGED <<inputs, unit_vars, loaded, remote, faults, cfn_stack, update, poll_vars, invoke_vars, trace>>

\* main lines 483-485: cfn.delete_stack, outside any try
delete_stack ==
    /\ pc = "delete"
    /\ operation = "DELETE"
    /\ \E resp \in WithFaults({Return(Accepted)}) :
        /\ faults' = faults + Cost(resp)
        /\ IF resp.kind = "return"
           THEN /\ remote' = IF remote.status = "NONE" THEN remote ELSE Moved(remote, "DELETE_IN_PROGRESS")
                /\ trace' = trace \o <<[call |-> "delete_stack", outcome |-> resp], Entered("DELETE")>>
                /\ begin_stack_operation("DELETE")
                /\ UNCHANGED exit
           ELSE /\ Issued("delete_stack", resp)
                /\ uncaught(resp.value)
                /\ UNCHANGED <<remote, poll_vars, invoke_vars>>
    /\ UNCHANGED <<inputs, unit_vars, loaded, cfn_stack, main_vars>>

(* ------------------------------------------------------------------ *)
(* The service moves the stack on while the module runs.               *)
(* ------------------------------------------------------------------ *)

RemoteStep ==
    /\ exit = Running
    /\ \E status \in NextStatus(remote.status) : remote' = Moved(remote, status)
    /\ UNCHANGED <<inputs, unit_vars, loaded, faults, cfn_stack, main_vars, poll_vars, invoke_vars, pc, exit, trace>>

Next == \/ load_current_stack
        \/ dry_run
        \/ described
        \/ create_stack
        \/ update_stack
        \/ absent_describe
        \/ absent
        \/ delete_stack
        \/ stack_operation
        \/ stack_outputs
        \/ invoke_with_throttling_retries
        \/ RemoteStep

Spec == Init /\ [][Next]_vars

(* ------------------------------------------------------------------ *)
(* The polling loop without the bound of the model: `polls` stops      *)
(* counting at MaxPolls, the loop of stack_operation does not stop.    *)
(* ------------------------------------------------------------------ *)

\* stack_operation lines 282-313: one more round after MaxPolls rounds
poll_on ==
    /\ pc = "poll"
    /\ wret.kind = "return"
    /\ ~operation_complete(operation, wret.value.stack_status)
    /\ polls = MaxPolls
    /\ existed' = existed \cup {"yes"}
    /\ stack' = wret.value
    /\ begin_invoke("poll")
    /\ UNCHANGED <<inputs, unit_vars, loaded, remote, faults, cfn_stack, main_vars, polls, exit, trace>>

\* a step of the module: everything but the service's own moves
Module == \/ load_current_stack
          \/ dry_run
          \/ described
          \/ create_stack
          \/ update_stack
          \/ absent_describe
          \/ invoke_with_throttling_retries
          \/ stack_operation
          \/ poll_on
          \/ stack_outputs
          \/ absent
          \/ delete_stack

LiveNext == \/ Module
            \/ RemoteStep

\* The module is one sequential process that runs until it exits: its next
\* step is always enabled until then, and is taken.
LiveSpec == Init /\ [][LiveNext]_vars /\ WF_vars(Module)

(* ------------------------------------------------------------------ *)
(* diff_json and planned_changes called on their own, on every pair of *)
(* documents and of parameter sets of a bounded universe.              *)
(* ------------------------------------------------------------------ *)

\* the mappings from some of `keys` to `values`
Maps(keys, values) == UNION {[d -> values] : d \in SUBSET keys}

\* the values of a document that are no mapping
Leaves == {Scalar(1), Scalar(2), List(<<1>>), List(<<1, 2>>)}

\* the mappings below the top of a document, themselves holding mappings
InnerMaps == Maps({"P", "Q"}, {Scalar(1), Scalar(2), Mapping(EmptyMap), Mapping([Z |-> Scalar(1)])})

Nodes == Leaves \cup {Mapping(m) : m \in InnerMaps}

\* the documents: key A holds a leaf, key R any node, each may be missing
Documents == {Mapping(a @@ r) : a \in Maps({"A"}, Leaves), r \in Maps({"R"}, Nodes)}

\* stack.parameters as describe_stacks returns them
CurrentParameters == {<<>>} \cup {<<Parameter("A", a)>> : a \in {"0", "1", "2"}} \cup {<<Parameter("A", a), Parameter("B", b)>> : a, b \in {"0", "1", "2"}}

\* module.params['template_parameters']: strings and integers, zero and
\* the empty string among them
TargetParameters == Maps({"A", "B", "C"}, {StrVal("1"), StrVal("2"), StrVal(""), IntVal(0), IntVal(2)})

AttributeError == [class |-> "AttributeError", code |-> "none", error_message |-> <<"object", "has", "no", "attribute", "keys">>]

FunctionInit ==
    /\ \/ applied \in {[fn |-> "diff_json", current |-> c, target |-> t] : c, t \in Documents}
       \/ applied \in {[fn |-> "planned_changes", current |-> c, target |-> t] : c \in CurrentParameters, t \in TargetParameters}
    /\ returned = NoAnswer
    /\ pc = "call"
    /\ check_mode = TRUE
    /\ state = "present"
    /\ template_body = "T1"
    /\ template_url = None
    /\ template_parameters = EmptyMap
    /\ remote = NoStack
    /\ faults = 0
    /\ cfn_stack = [present |-> FALSE, current_template |-> None, current_parameters |-> <<>>, current_outputs |-> EmptyDict]
    /\ update = FALSE
    /\ operation = None
    /\ result = EmptyDict
    /\ existed = {}
    /\ stack = Unbound
    /\ polls = 0
    /\ retries = 0
    /\ attempts = 0
    /\ delays = <<>>
    /\ answers = <<>>
    /\ wret = NoAnswer
    /\ caller = None
    /\ loaded = NoAnswer
    /\ exit = Running
    /\ trace = <<>>

\* self.diff_json(current, target)
call_diff_json ==
    /\ pc = "call"
    /\ applied.fn = "diff_json"
    /\ returned' = IF diff_json_raises(applied.current, applied.target) THEN Raise(AttributeError) ELSE Return(diff_json(applied.current, applied.target))
    /\ pc' = "done"
    /\ UNCHANGED <<inputs, applied, loaded, remote, faults, cfn_stack, main_vars, poll_vars, invoke_vars, exit, trace>>

\* planned_changes() of a present stack whose template is the desired one
call_planned_changes ==
    /\ pc = "call"
    /\ applied.fn = "planned_changes"
    /\ returned' = Return(planned_changes(TRUE, template_body, template_body, applied.target, applied.current))
    /\ pc' = "done"
    /\ UNCHANGED <<inputs, applied, loaded, remote, faults, cfn_stack, main_vars, poll_vars, invoke_vars, exit, trace>>

FunctionNext == \/ call_diff_json
                \/ call_planned_changes

FunctionSpec == FunctionInit /\ [][FunctionNext]_vars

(* ------------------------------------------------------------------ *)
(* Properties                                                          *)
(* ------------------------------------------------------------------ *)

Has(dict, key, value) == key \in DOMAIN dict /\ dict[key] = value

Throttled(answer) == answer.kind = "raise" /\ answer.value.code = IGNORE_CODE

\* the calls of create_stack, update_stack and delete_stack issued so far
Mutations == {n \in DOMAIN trace : trace[n].call \in {"create_stack", "update_stack", "delete_stack"}}

\* the polling loops entered so far
Pollings == {n \in DOMAIN trace : trace[n].call = "stack_operation"}

\* In check mode no mutating call is issued and the polling loop is never
\* entered, whatever the target state and the observed state.
DryRunNeverMutates == check_mode => (trace = <<>> /\ pc \in {"start", "mode", "done"})

\* C1: in check mode, for every target state and every observed state, the
\* call ends with a report (the exit_json of check) and issues no
\* create_stack, update_stack or delete_stack and never enters the polling
\* loop.
C1_DryRunReportsAndNeverMutates == check_mode => /\ Mutations = {}
                                                 /\ Pollings = {}
                                                 /\ pc \in {"start", "mode", "done"}
                                                 /\ (pc = "done" /\ exit.at = "mode") => exit.kind = "exit_json"

\* the current invoke has raised, and every call it made was throttled
ExhaustedByThrottling == wret.kind = "raise" /\ \A n \in DOMAIN answers : Throttled(answers[n])

\* C2 as stated: when every call of the wrapped operation is throttled,
\* invoke_with_throttling_retries raises after exactly 3 calls.
C2_RaisesAfterThreeAttempts == ExhaustedByThrottling => attempts = 3

\* C2 amended: when every call of the wrapped operation is throttled,
\* invoke_with_throttling_retries raises the last error after exactly
\* MAX_RETRIES + 1 = 4 calls, having slept MAX_RETRIES = 3 times.
C2_RaisesAfterFourAttempts == ExhaustedByThrottling => /\ attempts = 4
                                                       /\ Len(answers) = 4
                                                       /\ Len(delays) = 3
                                                       /\ wret = answers[4]

C2_Witness == ExhaustedByThrottling /\ attempts = 4 /\ pc # "invoke"

\* C3: when the wrapped operation is throttled k times (k <= 3) and then
\* succeeds, invoke_with_throttling_retries returns that success value
\* after exactly k sleeps, the i-th of 5 * 2^(i-1) seconds; for k = 2 the
\* sleeps are 5 then 10.
C3_BackoffThenSuccess == wret.kind = "return" => LET k == Len(answers) - 1 IN
                                                  /\ k \in 0..3
                                                  /\ \A i \in 1..k : Throttled(answers[i])
                                                  /\ wret = answers[k + 1]
                                                  /\ attempts = k + 1
                                                  /\ Len(delays) = k
                                                  /\ \A i \in 1..k : delays[i] = 5 * 2^(i - 1)
                                                  /\ (k = 2 => delays = <<5, 10>>)

C3_Witness == wret.kind = "return" /\ Len(answers) = 4 /\ delays = <<5, 10, 20>>

\* C4: an error of the wrapped operation that is not of the throttling
\* class is raised at once: the call that met it is the last call of the
\* invoke, nothing is slept after it, whatever the number of throttled
\* calls before it.
C4_OtherErrorsPropagate == \A n \in DOMAIN answers : (answers[n].kind = "raise" /\ ~Throttled(answers[n])) => /\ n = Len(answers)
                                                                                                          /\ attempts = n
                                                                                                          /\ Len(delays) = n - 1
                                                                                                          /\ wret = answers[n]
                                                                                                          /\ pc # "invoke"

C4_Witness == Len(answers) = 3 /\ Throttled(answers[1]) /\ Throttled(answers[2]) /\ answers[3] = Raise(AccessDeniedError) /\ wret = Raise(AccessDeniedError)

\* a step of stack_operation: it alone leaves the position "poll"
PollStep == pc = "poll" /\ pc' # "poll"

\* a step of stack_operation that goes round the loop once more
PollsAgain == pc' = "invoke" /\ caller' = "poll" /\ polls' = polls + 1 /\ result' = result

\* C5: in the polling loop for operation OP a described stack is classified
\* by its status: OP_COMPLETE ends the loop with changed, not failed and
\* 'Stack OP complete'; ROLLBACK_COMPLETE, OP_ROLLBACK_COMPLETE and
\* OP_FAILED end it with changed and failed; any other status gives no
\* result and the loop polls again.  Every result of the loop has changed
\* set, and failed only for the rollback-complete and failed statuses.
C5_StatusClassification == [][PollStep => LET OP == operation
                                              status == wret.value.stack_status
                                              rolled_back == status = "ROLLBACK_COMPLETE" \/ status = OP \o "_ROLLBACK_COMPLETE"
                                          IN /\ wret.kind = "return" =>
                                                  IF status = OP \o "_COMPLETE"
                                                  THEN Has(result', "changed", TRUE) /\ "failed" \notin DOMAIN result' /\ Has(result', "output", "Stack " \o OP \o " complete") /\ ~PollsAgain
                                                  ELSE IF rolled_back \/ status = OP \o "_FAILED"
                                                  THEN Has(result', "changed", TRUE) /\ Has(result', "failed", TRUE) /\ ~PollsAgain
                                                  ELSE PollsAgain
                                             /\ ~PollsAgain => Has(result', "changed", TRUE)
                                             /\ "failed" \in DOMAIN result' => (wret.kind = "return" /\ (rolled_back \/ status = OP \o "_FAILED") /\ result'.failed = TRUE)]_vars

C5_Witness == caller = "outputs" /\ operation = "CREATE" /\ stack.stack_status = "ROLLBACK_COMPLETE" /\ Has(result, "failed", TRUE) /\ Has(result, "output", "Problem with CREATE. Rollback complete")

\* C6: in the polling loop, when describe fails with 'not found': after an
\* earlier describe of this loop succeeded the loop ends with changed,
\* 'Stack Deleted' and the event trail; otherwise it ends with changed and
\* 'Stack Not Found', without event trail.  Within a loop the
\* observed-to-exist flag, once set, stays set.
C6_NotFoundDuringPolling == [][/\ (PollStep /\ wret = Raise(NotFoundError)) =>
                                      IF polls > 0
                                      THEN result' = [changed |-> TRUE, output |-> "Stack Deleted", events |-> remote.events] /\ ~PollsAgain
                                      ELSE result' = [changed |-> TRUE, output |-> "Stack Not Found"] /\ ~PollsAgain
                               /\ (pc \in {"poll", "invoke"} /\ "yes" \in existed) => "yes" \in existed'
                               /\ (PollStep /\ wret.kind = "return") => "yes" \in existed']_vars

C6_Witness == wret = Raise(NotFoundError) /\ caller = "poll" /\ polls > 0 /\ "yes" \in existed /\ Has(result, "output", "Stack Deleted") /\ "events" \in DOMAIN result

\* target state absent, the stack was described, delete_stack was accepted
\* and the poll that ended the loop met 'not found'
DeletedWhilePolling == /\ state = "absent"
                       /\ Len(trace) = 2
                       /\ trace[1].call = "delete_stack"
                       /\ trace[1].outcome.kind = "return"
                       /\ caller = "poll"
                       /\ wret = Raise(NotFoundError)
                       /\ exit.kind = "exit_json"

\* C7 as stated: for target state absent against a stack observed to exist,
\* once the delete is issued a 'not found' on any poll, the first one
\* included, ends the call with changed and 'Stack Deleted'.
C7_DeletedOnAnyPoll == DeletedWhilePolling => (Has(exit.args, "changed", TRUE) /\ Has(exit.args, "output", "Stack Deleted"))

\* C7 amended: a 'not found' on a poll that follows a poll which described
\* the stack ends the call with changed and 'Stack Deleted'; a 'not found'
\* on the first poll after the delete call ends it with changed and
\* 'Stack Not Found'.
C7_DeletedAfterASuccessfulPoll == DeletedWhilePolling => /\ Has(exit.args, "changed", TRUE)
                                                         /\ Has(exit.args, "output", IF polls > 0 THEN "Stack Deleted" ELSE "Stack Not Found")

C7_Witness == DeletedWhilePolling /\ polls > 0 /\ Has(exit.args, "output", "Stack Deleted")

C7_WitnessFirstPoll == DeletedWhilePolling /\ polls = 0 /\ Has(exit.args, "output", "Stack Not Found")

UpdateIssued == \E n \in DOMAIN trace : trace[n].call = "update_stack"

\* C8: for target state present, update_stack is issued if and only if
\* create_stack was rejected with 'already exists'; an accepted
\* create_stack is followed by the polling of CREATE and never by
\* update_stack; any other failure of create_stack ends the call with
\* fail_json, with neither update_stack nor polling after it.
C8_UpdateOnlyAfterAlreadyExists == (state = "present" /\ trace # <<>>) => LET first == trace[1].outcome IN
                                       /\ trace[1].call = "create_stack"
                                       /\ UpdateIssued => (first = Raise(AlreadyExistsError) /\ trace[2].call = "update_stack")
                                       /\ first = Raise(AlreadyExistsError) => (IF Len(trace) = 1 THEN pc = "update" /\ update /\ exit = Running ELSE trace[2].call = "update_stack")
                                       /\ first.kind = "return" => (Len(trace) = 2 /\ trace[2] = Entered("CREATE") /\ ~UpdateIssued)
                                       /\ (first.kind = "raise" /\ first # Raise(AlreadyExistsError)) => (Len(trace) = 1 /\ pc = "done" /\ exit.kind = "fail_json")

C8_Witness == state = "present" /\ Len(trace) = 3 /\ trace[1].outcome = Raise(AlreadyExistsError) /\ trace[2].call = "update_stack" /\ trace[3] = Entered("UPDATE")

\* update_stack was rejected with 'No updates are to be performed.'
NoUpdatesAnswered == \E n \in DOMAIN trace : trace[n].call = "update_stack" /\ trace[n].outcome = Raise(NoUpdatesError)

\* for target state absent the describe of main reported that the stack
\* does not exist
ReportedMissing == state = "absent" /\ caller = "absent" /\ wret = Raise(NotFoundError)

\* C9: when update_stack is rejected with 'No updates are to be performed.'
\* the result is changed=false with 'Stack is already up-to-date.' and the
\* polling loop is never entered; when, for target state absent, the stack
\* is reported as not existing, the result is changed=false, delete_stack
\* is never issued and the polling loop is never entered.
C9_NoOpErrorsAreUnchangedResults == /\ NoUpdatesAnswered => /\ Pollings = {}
                                                            /\ pc \in {"invoke", "outputs", "done"}
                                                            /\ Has(result, "changed", FALSE)
                                                            /\ Has(result, "output", "Stack is already up-to-date.")
                                                            /\ pc = "done" => \/ exit.kind = "exception" /\ exit.at = "outputs"
                                                                              \/ exit.kind = "exit_json" /\ Has(exit.args, "changed", FALSE) /\ Has(exit.args, "output", "Stack is already up-to-date.")
                                    /\ ReportedMissing => /\ trace = <<>>
                                                          /\ pc \in {"absent", "done"}
                                                          /\ pc = "done" => exit.kind = "exit_json" /\ Has(exit.args, "changed", FALSE)

C9_Witness == NoUpdatesAnswered /\ exit.kind = "exit_json" /\ Has(exit.args, "output", "Stack is already up-to-date.")

C9_WitnessAbsent == ReportedMissing /\ exit.kind = "exit_json" /\ Has(exit.args, "output", "Stack not found.")

\* C10: when the current stack is observed, a 'stack not found' error of
\* describe gives an observed state with existence false, and any other
\* error of describe ends the call as a fatal error instead of being
\* reported as existence false.
C10_OnlyNotFoundMeansAbsent == loaded.kind = "raise" => IF loaded = Raise(NotFoundError)
                                                        THEN ~cfn_stack.present /\ exit.at # "start"
                                                        ELSE pc = "done" /\ exit.at = "start" /\ exit.kind \in {"fail_json", "exception"}

\* C11: during polling a failure of describe that is not 'not found' (a
\* throttling failure that outlived its retries included) ends the call as
\* a fatal error; it never gives a Deleted or StackNotFound result.
C11_OtherDescribeFailuresAreFatal == [][(PollStep /\ wret.kind = "raise" /\ wret # Raise(NotFoundError)) => /\ pc' = "done"
                                                                                                        /\ exit'.kind \in {"fail_json", "exception"}
                                                                                                        /\ result' = result]_vars

\* C12: the dry-run report follows the planner table: 'present' without a
\* stack reports a create (changed) whatever the template and the
\* parameters are, 'absent' with a stack reports a delete (changed),
\* 'absent' without a stack reports no change, and 'described' reports no
\* change whether the stack exists or not.
C12_DryRunFollowsTheTable == (check_mode /\ pc = "done" /\ exit.at = "mode") => /\ exit.kind = "exit_json"
                                                                                /\ (state = "present" /\ ~cfn_stack.present) => (exit.args.changed /\ exit.args.output = "Stack would be created.")
                                                                                /\ (state = "absent" /\ cfn_stack.present) => (exit.args.changed /\ exit.args.output = "Stack will be deleted.")
                                                                                /\ (state = "absent" /\ ~cfn_stack.present) => ~exit.args.changed
                                                                                /\ state = "described" => ~exit.args.changed

\* C13: for 'present' against an existing stack the planner yields NoOp
\* (dry run: changed=false, 'Stack is up to date.') whenever the desired and
\* the observed template are the same structured document and there is no
\* parameter delta, and yields Update (changed=true) only when the
\* structural change report or the parameter delta is non-empty.
C13_NoOpWhenDocumentsAreEqual == (check_mode /\ pc = "done" /\ exit.at = "mode" /\ state = "present" /\ cfn_stack.present /\ template_body \in TemplateTexts /\ cfn_stack.current_template \in TemplateTexts) =>
    LET target == json_loads(template_body)
        current == json_loads(cfn_stack.current_template)
        no_delta == DeltaKeys(template_parameters, cfn_stack.current_parameters) = {}
    IN /\ (target = current /\ no_delta) => (exit.kind = "exit_json" /\ ~exit.args.changed /\ exit.args.output = "Stack is up to date.")
       /\ (exit.kind = "exit_json" /\ exit.args.changed) => (~no_delta \/ (~diff_json_raises(current, target) /\ diff_json(current, target) # EmptyMap))

\* the delta the claim describes: a key of the current parameters that has
\* a target value whose string form differs from the current value
ReferenceDelta(target_parameters, current_parameters) == LET keys == {current_parameters[n].key : n \in DOMAIN current_parameters}
                                                             differs == {key \in keys \cap DOMAIN target_parameters : str(target_parameters[key]) # OldValue(current_parameters, key)}
                                                         IN [key \in differs |-> [from |-> OldValue(current_parameters, key), to |-> target_parameters[key]]]

\* C14: the parameter delta is the reference set: a key is in it exactly
\* when it is among the current parameters, has a target value, and its
\* current value differs from the string form of the target value; its
\* entry is {from: current, to: target}; keys only in the target never
\* appear.
C14_ParameterDeltaIsTheReferenceSet == (pc = "done" /\ applied.fn = "planned_changes") =>
    LET reference == ReferenceDelta(applied.target, applied.current)
    IN returned = Return(IF DOMAIN reference = {} THEN <<>> ELSE <<reference>>)

\* C15: for a key of both documents with unequal values diff_json gives a
\* nested report when both values are mappings and a flat Changed entry
\* with the two values in every other case, a mapping on either side and a
\* non-mapping on the other included.
C15_FlatChangedUnlessBothAreMappings == (pc = "done" /\ applied.fn = "diff_json") => /\ returned.kind = "return"
                                                                                     /\ \A key \in UnequalKeys(applied.current, applied.target) :
                                                                                            LET old == applied.current.m[key]
                                                                                                new == applied.target.m[key]
                                                                                            IN IF old.kind = "dict" /\ new.kind = "dict"
                                                                                               THEN returned.value[key].e = "Nested"
                                                                                               ELSE returned.value[key] = Changed(old, new)

Restrict(f, keys) == [key \in keys |-> f[key]]

\* The reports the claim expects when `large` is `small` plus one leaf key,
\* at the top or inside a mapping both hold: the path of that key, ending
\* in `entry`.  No report is expected of any other pair.
RECURSIVE ExpectedOneLeaf(_, _, _)
ExpectedOneLeaf(small, large, entry) == LET both == (DOMAIN small.m) \cap (DOMAIN large.m)
                                            new == {key \in (DOMAIN large.m) \ (DOMAIN small.m) : large.m[key].kind # "dict" /\ DOMAIN large.m = (DOMAIN small.m) \cup {key} /\ Restrict(large.m, DOMAIN small.m) = small.m}
                                            inside == {key \in both : small.m[key].kind = "dict" /\ large.m[key].kind = "dict" /\ DOMAIN large.m = DOMAIN small.m /\ Restrict(large.m, both \ {key}) = Restrict(small.m, both \ {key})}
                                        IN {[k \in {key} |-> entry] : key \in new} \cup UNION {{[k \in {key} |-> Nested(child)] : child \in ExpectedOneLeaf(small.m[key], large.m[key], entry)} : key \in inside}

\* C16: of two mapping documents that differ only by one leaf key the
\* target has and the current has not, at any depth, the report holds one
\* Added entry at the path of that key and no other entry; the same with
\* Removed for a key the current has and the target has not.
C16_OneLeafOneEntry == (pc = "done" /\ applied.fn = "diff_json") => /\ \A report \in ExpectedOneLeaf(applied.current, applied.target, [e |-> "Added"]) : returned = Return(report)
                                                                    /\ \A report \in ExpectedOneLeaf(applied.target, applied.current, [e |-> "Removed"]) : returned = Return(report)

\* a leaf was added two mappings down
C16_Witness == /\ pc = "done"
               /\ applied.fn = "diff_json"
               /\ returned.kind = "return"
               /\ \E report \in ExpectedOneLeaf(applied.current, applied.target, [e |-> "Added"]) : \E key \in DOMAIN report : report[key].e = "Nested" /\ \E inner \in DOMAIN report[key].d : report[key].d[inner].e = "Nested"

\* a leaf was removed one mapping down, beside a key the documents share
C16_WitnessRemoved == /\ pc = "done"
                      /\ applied.fn = "diff_json"
                      /\ returned.kind = "return"
                      /\ "A" \in DOMAIN applied.current.m
                      /\ \E report \in ExpectedOneLeaf(applied.target, applied.current, [e |-> "Removed"]) : \E key \in DOMAIN report : report[key].e = "Nested"

RECURSIVE HasSentinel(_)
HasSentinel(report) == \E key \in DOMAIN report : report[key] = Sentinel \/ (report[key].e = "Nested" /\ HasSentinel(report[key].d))

\* C20: for every pair of mapping documents diff_json returns the empty
\* report exactly when the two are deeply equal, and no report holds the
\* sentinel 'child diff but no changes found'.
C20_EmptyIffEqualAndNoSentinel == (pc = "done" /\ applied.fn = "diff_json") => /\ (returned = Return(EmptyMap)) <=> (applied.current = applied.target)
                                                                               /\ returned.kind = "return" => ~HasSentinel(returned.value)

\* two documents that differ inside a mapping both hold: diff_json recursed
\* and found the child report non-empty
C20_Witness == /\ pc = "done"
               /\ applied.fn = "diff_json"
               /\ applied.current # applied.target
               /\ returned.kind = "return"
               /\ \E key \in DOMAIN returned.value : returned.value[key].e = "Nested"

\* two equal documents with a mapping in them: the report is empty
C20_WitnessEqual == /\ pc = "done"
                    /\ applied.fn = "diff_json"
                    /\ applied.current = applied.target
                    /\ "R" \in DOMAIN applied.current.m
                    /\ returned = Return(EmptyMap)

\* the entries of trace up to n that are throttled answers to the call of entry n
ThrottledSoFar(n) == {k \in 1..n : trace[k].call = trace[n].call /\ Throttled(trace[k].outcome)}

\* C17: every remote call, create_stack, update_stack, delete_stack and
\* describe_stacks, is resilient to throttling: a throttling error is
\* retried, up to the bound on attempts, and the call of the module does not
\* end on the first one.  `loaded` keeps the one answer the describe of
\* _load_current_stack got: a throttling answer there was not retried.
C17_EveryRemoteCallRetriesThrottling == pc = "done" =>
    /\ \A n \in Mutations : Throttled(trace[n].outcome) => ((n < Len(trace) /\ trace[n + 1].call = trace[n].call) \/ Cardinality(ThrottledSoFar(n)) = MAX_RETRIES + 1)
    /\ ~Throttled(loaded)

\* the service will not move the stack again: its status has no successor
Settled == NextStatus(remote.status) = {}

\* inside stack_operation: at its test of the answer, or in its describe
InLoop == pc = "poll" \/ (pc = "invoke" /\ caller = "poll")

\* C18: under fair scheduling of the poller, whatever the operation, if the
\* stack ends up settled in a terminal status or gone, the polling loop
\* ends with a result.
C18_PollingEnds == (<>[]Settled) => [](InLoop => <>(~InLoop))

\* C18, the step that breaks it: a poll that is answered with a status the
\* service will never leave returns a result.
C18_SettledStatusEndsTheLoop == [][(pc = "poll" /\ pc' # pc /\ wret.kind = "return" /\ NextStatus(wret.value.stack_status) = {}) => ~(pc' = "invoke" /\ caller' = "poll")]_vars

\* the calls of trace with this name
Calls(name) == {n \in DOMAIN trace : trace[n].call = name}

\* C19: in one call of the module each of create_stack, update_stack and
\* delete_stack is issued at most once and at most one operation is polled;
\* 'present' never issues delete_stack, 'absent' and 'described' never
\* issue create_stack or update_stack.
C19_AtMostOneOfEachCall == /\ \A name \in {"create_stack", "update_stack", "delete_stack", "stack_operation"} : Cardinality(Calls(name)) <= 1
                           /\ state = "present" => Calls("delete_stack") = {}
                           /\ state \in {"absent", "described"} => Calls("create_stack") \cup Calls("update_stack") = {}

\* create_stack was rejected with 'already exists', update_stack was
\* accepted and its operation polled to the end
C19_Witness == /\ pc = "done"
               /\ Cardinality(Calls("create_stack")) = 1
               /\ Cardinality(Calls("update_stack")) = 1
               /\ Cardinality(Calls("stack_operation")) = 1
               /\ exit.kind = "exit_json"

\* 'absent': delete_stack was issued and the deletion polled to the end
C19_WitnessAbsent == /\ pc = "done"
                     /\ state = "absent"
                     /\ Cardinality(Calls("delete_stack")) = 1
                     /\ Cardinality(Calls("stack_operation")) = 1
                     /\ exit.kind = "exit_json"

====
